---- MODULE Spec2Model ----
(***************************************************************************)
(* Model of the editor of src/src/editor.rs (Editor, its main loop, the    *)
(* shared prompt, the search session) over the terminal of                 *)
(* src/src/terminal.rs and the highlighting types of                       *)
(* src/src/highlighting.rs.  Document and Row are not part of the sources  *)
(* at hand; their operations (insert, delete, find, save, highlight) are   *)
(* modelled from the specification (spec.md, sections 3, 4.1 and 4.2).     *)
(*                                                                         *)
(* Spec is the editor as a whole on small documents.  The other            *)
(* specifications run parts of it on inputs Spec does not reach:           *)
(* SpecFallback a terminal without a size, SpecFind the call of            *)
(* Document.find on any document, SpecKeys motion and removal on longer    *)
(* documents and any viewport, SpecHighlight the highlighting of typed     *)
(* text, SpecPrompt prompts with characters of two bytes, and SpecClock    *)
(* the message bar under a running clock.                                  *)
(***************************************************************************)
EXTENDS Integers, Sequences, FiniteSets, TLC

\* ------------------------------------------------------------------ bounds
MaxRows == 2        \* rows a document may grow to
MaxChars == 2       \* characters a document may grow to, over all its rows
MaxQuery == 1       \* characters typed into a prompt
MaxFindRows == 2    \* Document.find alone: rows of the document
MaxFindLen == 2     \* Document.find alone: characters of a row
MaxFindQuery == 2   \* Document.find alone: characters of the query
MaxNow == 6         \* the clock: seconds it runs to
MaxWide == 2        \* prompt with wide characters: characters typed
MaxKeyRows == 4     \* motion and removal: rows of the document opened
MaxTerminalRows == 4  \* motion and removal: rows the terminal may report
MaxHlRows == 3      \* highlighting: rows typed into the document
MaxHlChars == 6     \* highlighting: characters typed into the document
TerminalSizes == {<<2, 3>>}   \* <<columns, rows>> the terminal may report

\* -------------------------------------------------------- program constants
QUIT_TIMES == 3
FallbackWidth == 16
FallbackHeight == 20
TabAdvance == 4
MessageSeconds == 5

TAB == "\t"
Chars == {"a"}                     \* characters a Char key delivers
None == <<>>                       \* Option: None is <<>>, Some(v) is <<v>>
Some(v) == <<v>>

Position(x, y) == [x |-> x, y |-> y]

saturating_sub(a, b) == IF a > b THEN a - b ELSE 0

is_control(c) == c = TAB

\* The bytes of a character in UTF-8: one for ASCII, two for "é".
len_utf8(c) == IF c = "é" THEN 2 ELSE 1

\* String::len: the length in bytes.
RECURSIVE string_len(_)
string_len(s) == IF s = <<>> THEN 0 ELSE len_utf8(Head(s)) + string_len(Tail(s))

\* str::is_char_boundary: the byte index is where a character starts, or
\* the end of the string.
is_char_boundary(s, index) ==
    \E n \in 0..Len(s) : string_len(SubSeq(s, 1, n)) = index

\* String::truncate to new_len bytes, which the caller has found to be a
\* character boundary: the characters that end at or before it.
string_truncate(s, new_len) ==
    IF new_len > string_len(s) THEN s
    ELSE SubSeq(s, 1, CHOOSE n \in 0..Len(s) : string_len(SubSeq(s, 1, n)) = new_len)

VARIABLES
    should_quit,        \* Editor.should_quit
    size,               \* Editor.terminal.size
    cursor_position,    \* Editor.cursor_position
    offset,             \* Editor.offset
    rows,               \* Editor.document: its rows
    dirty,              \* Editor.document: its dirty flag
    file_name,          \* Editor.document: its file name (Option)
    status_message,     \* Editor.status_message
    quit_times,         \* Editor.quit_times
    highlighted_word,   \* Editor.highlighted_word (Option)
    raw_mode,           \* the terminal is in raw mode
    pc,                 \* the process: "loop" (at the top of a loop), "read_key" (blocked
                        \* in Terminal::read_key, where the clock is modelled), "exited",
                        \* "panicked"
    mode,               \* "main", or the prompt the process is inside: "search", "save_as"
    key,                \* the key code last returned by Terminal::read_key
    result,             \* prompt: the text typed so far
    old_position,       \* search: the cursor recorded at entry
    direction,          \* search: "Forward" or "Backward"
    highlight_word,     \* the word handed to Document::highlight by the last refresh (Option)
    quits,              \* history: the F8 keys read in a row by the main loop
    now,                \* the clock (Instant::now), in seconds since construction
    message_bar,        \* the screen: the message on the message bar (Option)
    highlighting,       \* Editor.document: the highlighting of its rows
    found               \* history: the value Document::find returned last (Option of it)

editor == <<should_quit, size, cursor_position, offset, rows, dirty, file_name,
            status_message, quit_times, highlighted_word, raw_mode, pc, mode, key,
            result, old_position, direction, highlight_word, quits>>

vars == <<editor, now, message_bar, highlighting, found>>

\* ---------------------------------------------------------------- messages
\* StatusMessage::from: the text (a format and its arguments) and the time of
\* its making.
StatusMessage(text, arg) == [text |-> text, arg |-> arg, time |-> now]
MsgHelp == StatusMessage("HELP: F3 = find | F5 = save | F8 = quit", <<>>)
MsgOpenErr == StatusMessage("ERR: Could not open file: ", <<>>)
MsgEmpty == StatusMessage("", <<>>)
MsgSaved == StatusMessage("File saved successfully.", <<>>)
MsgWriteErr == StatusMessage("Error writing file!", <<>>)
MsgAborted == StatusMessage("Save aborted: ", <<>>)
MsgWarning(n) == StatusMessage("WARNING! File has unsaved changes. Press F8 n more times to quit.", <<ToString(n)>>)
MsgPrompt(prompt, text) == StatusMessage(prompt, text)


\* ------------------------------------------------- Document and Row (spec)
row_len(doc, y) == IF y < Len(doc) THEN Len(doc[y + 1]) ELSE 0

Take(s, n) == SubSeq(s, 1, n)
Drop(s, n) == SubSeq(s, n + 1, Len(s))

\* Document.insert: a line break splits the row, any other character goes
\* into the row at the column; at the one-past-last row a row is appended.
document_insert(doc, at, c) ==
    IF at.y > Len(doc) THEN doc
    ELSE IF at.y = Len(doc)
    THEN Append(doc, IF c = "\n" THEN <<>> ELSE <<c>>)
    ELSE LET row == doc[at.y + 1]
             col == IF at.x > Len(row) THEN Len(row) ELSE at.x
         IN IF c = "\n"
            THEN Take(doc, at.y) \o <<Take(row, col), Drop(row, col)>> \o Drop(doc, at.y + 1)
            ELSE [doc EXCEPT ![at.y + 1] = Take(row, col) \o <<c>> \o Drop(row, col)]

\* Document.delete: removes the character at the column, or merges the next
\* row into this one at the end of the row.
document_delete(doc, at) ==
    IF at.y >= Len(doc) THEN doc
    ELSE LET row == doc[at.y + 1]
         IN IF at.x < Len(row)
            THEN [doc EXCEPT ![at.y + 1] = Take(row, at.x) \o Drop(row, at.x + 1)]
            ELSE IF at.y + 1 < Len(doc)
            THEN Take(doc, at.y) \o <<row \o doc[at.y + 2]>> \o Drop(doc, at.y + 2)
            ELSE doc

document_delete_dirty(doc, at, d) == IF at.y >= Len(doc) THEN d ELSE TRUE
document_insert_dirty(doc, at, d) == IF at.y > Len(doc) THEN d ELSE TRUE

\* Matches of query in row: the 0-based columns at which it occurs.
row_matches(row, query) ==
    {i \in 0..Len(row) : i + Len(query) <= Len(row)
                         /\ SubSeq(row, i + 1, i + Len(query)) = query}

Min(S) == CHOOSE m \in S : \A n \in S : m <= n
Max(S) == CHOOSE m \in S : \A n \in S : m >= n

\* Row search from column `from`: forward the first match at or after it,
\* backward the last match that ends at or before it.
row_find(row, query, from, dir) ==
    LET hits == IF dir = "Forward"
                THEN {i \in row_matches(row, query) : i >= from}
                ELSE {i \in row_matches(row, query) : i + Len(query) <= from}
    IN IF hits = {} THEN None
       ELSE Some(IF dir = "Forward" THEN Min(hits) ELSE Max(hits))

\* The rows Document.find visits after the start row, in order: forward the
\* rows below it and then, wrapping, the rows above it; backward the mirror.
find_order(n, y, dir) ==
    IF dir = "Forward"
    THEN [i \in 1..(n - y - 1) |-> y + i] \o [i \in 1..(IF y < n THEN y ELSE n) |-> i - 1]
    ELSE [i \in 1..(IF y < n THEN y ELSE n) |-> (IF y < n THEN y ELSE n) - i]
         \o [i \in 1..(n - y - 1) |-> n - i]

RECURSIVE find_in(_, _, _, _)
find_in(doc, query, order, dir) ==
    IF order = <<>> THEN None
    ELSE LET y == Head(order)
             hit == row_find(doc[y + 1], query, IF dir = "Forward" THEN 0 ELSE Len(doc[y + 1]), dir)
         IN IF hit # None THEN Some(Position(hit[1], y))
            ELSE find_in(doc, query, Tail(order), dir)

\* Document.find with a wrap that stops short of the start row.
document_find_short_wrap(doc, query, at, dir) ==
    IF query = <<>> THEN None
    ELSE LET first == IF at.y < Len(doc)
                      THEN row_find(doc[at.y + 1], query, at.x, dir)
                      ELSE None
         IN IF first # None THEN Some(Position(first[1], at.y))
            ELSE find_in(doc, query, find_order(Len(doc), at.y, dir), dir)

\* Document.find: none on an empty query; else the start row from the start
\* column, then the other rows, wrapping at the end of the document, and
\* last the start row again, which makes the wrap full.
document_find(doc, query, at, dir) ==
    IF query = <<>> THEN None
    ELSE LET first == IF at.y < Len(doc)
                      THEN row_find(doc[at.y + 1], query, at.x, dir)
                      ELSE None
             again == IF at.y < Len(doc) THEN <<at.y>> ELSE <<>>
         IN IF first # None THEN Some(Position(first[1], at.y))
            ELSE find_in(doc, query, find_order(Len(doc), at.y, dir) \o again, dir)

\* ------------------------------------------------------------- highlighting
\* highlighting::Type
Type ==
    {"None", "Number", "Match", "String", "Character", "Comment", "MiltilineComment",
     "PrimaryKeywords", "SecondaryKeywords"}

Rgb(r, g, b) == <<r, g, b>>

\* to_color that has no arm for the multi-line comment.
to_color_single_line(type) ==
    CASE type = "Number" -> Rgb(180, 126, 141)
      [] type = "Match" -> Rgb(38, 139, 210)
      [] type = "String" -> Rgb(205, 92, 8)
      [] type = "Character" -> Rgb(108, 113, 196)
      [] type = "Comment" -> Rgb(245, 232, 183)
      [] type = "PrimaryKeywords" -> <<"Red">>
      [] type = "SecondaryKeywords" -> Rgb(255, 161, 152)
      [] OTHER -> Rgb(255, 255, 255)

\* Type::to_color
to_color(type) ==
    CASE type = "Number" -> Rgb(180, 126, 141)
      [] type = "Match" -> Rgb(38, 139, 210)
      [] type = "String" -> Rgb(205, 92, 8)
      [] type = "Character" -> Rgb(108, 113, 196)
      [] type \in {"Comment", "MiltilineComment"} -> Rgb(245, 232, 183)
      [] type = "PrimaryKeywords" -> <<"Red">>
      [] type = "SecondaryKeywords" -> Rgb(255, 161, 152)
      [] OTHER -> Rgb(255, 255, 255)

\* The comment tokens of the language of the document.
LineComment == <<"/", "/">>
BlockOpen == <<"/", "*">>
BlockClose == <<"*", "/">>

\* `token` stands in `row` at the 1-based place i.
TokenAt(row, i, token) ==
    i + Len(token) - 1 <= Len(row) /\ SubSeq(row, i, i + Len(token) - 1) = token

\* The lexer over one row from place i on, from the lexical state `state`:
\* the types of the characters from i on and the state at the row's end.
RECURSIVE scan(_, _, _)
scan(row, i, state) ==
    IF i > Len(row) THEN [types |-> <<>>, state |-> state]
    ELSE IF state = "InBlockComment"
    THEN IF TokenAt(row, i, BlockClose)
         THEN LET r == scan(row, i + 2, "Normal")
              IN [types |-> <<"MiltilineComment", "MiltilineComment">> \o r.types,
                  state |-> r.state]
         ELSE LET r == scan(row, i + 1, "InBlockComment")
              IN [types |-> <<"MiltilineComment">> \o r.types, state |-> r.state]
    ELSE IF TokenAt(row, i, LineComment)
    THEN [types |-> [j \in 1..(Len(row) - i + 1) |-> "Comment"], state |-> "Normal"]
    ELSE IF TokenAt(row, i, BlockOpen)
    THEN LET r == scan(row, i + 2, "InBlockComment")
         IN [types |-> <<"MiltilineComment", "MiltilineComment">> \o r.types,
             state |-> r.state]
    ELSE LET r == scan(row, i + 1, "Normal")
         IN [types |-> <<"None">> \o r.types, state |-> r.state]

\* Row.highlight: the lexical types, and over them Match on every
\* occurrence of the word.
row_highlight(row, word, state) ==
    LET lexical == scan(row, 1, state).types
    IN [i \in 1..Len(row) |->
          IF /\ word # None
             /\ word[1] # <<>>
             /\ \E m \in row_matches(row, word[1]) : m < i /\ i <= m + Len(word[1])
          THEN "Match" ELSE lexical[i]]

\* The lexical state carried into row y (0-based) of the document.
RECURSIVE carried(_, _)
carried(doc, y) ==
    IF y = 0 THEN "Normal" ELSE scan(doc[y], 1, carried(doc, y - 1)).state

\* The highlighting of the rows first..limit-1 made anew, each from the
\* state carried into it; the other rows keep the highlighting they have.
highlight_from(doc, old, word, first, limit) ==
    [y \in 1..Len(doc) |->
        IF first < y /\ y <= limit
        THEN row_highlight(doc[y], word, carried(doc, y - 1))
        ELSE IF y <= Len(old) /\ Len(old[y]) = Len(doc[y]) THEN old[y]
        ELSE [i \in 1..Len(doc[y]) |-> "None"]]

\* Document.highlight(word, until): rows 0..until are made anew.
document_highlight(doc, old, word, until) ==
    highlight_from(doc, old, word, 0, IF until < Len(doc) THEN until ELSE Len(doc))

\* ------------------------------------------------------------------ Editor
K(code) == [code |-> code, c |-> ""]
KChar(c) == [code |-> "Char", c |-> c]
MoveKeys == {"Up", "Down", "Left", "Right", "PageUp", "PageDown", "End", "Home"}

\* Editor::scroll: the offset that brings the cursor into the viewport.
scroll(pos, off, sz) ==
    [y |-> IF pos.y < off.y THEN pos.y
           ELSE IF pos.y >= off.y + sz.height
           THEN saturating_sub(pos.y, sz.height) + 1
           ELSE off.y,
     x |-> IF pos.x < off.x THEN pos.x
           ELSE IF pos.x >= off.x + sz.width
           THEN saturating_sub(pos.x, sz.width) + 1
           ELSE off.x]

\* PageDown that stays where it is when a page down would leave the document.
page_down_stays(y, terminal_height, height) ==
    IF y + terminal_height < height THEN y + terminal_height ELSE y

\* Editor::move_cursor, KeyCode::PageDown: the new y.
page_down(y, terminal_height, height) ==
    IF y + terminal_height < height THEN y + terminal_height ELSE height

\* Editor::move_cursor, KeyCode::PageUp: the new y.
page_up(y, terminal_height) ==
    IF y > terminal_height THEN saturating_sub(y, terminal_height) ELSE 0

\* Editor::move_cursor before its final clamp of x to the row's width.
move_step(code, pos, doc, sz) ==
    LET terminal_height == sz.height
        x == pos.x
        y == pos.y
        height == Len(doc)
        width == row_len(doc, y)
    IN CASE code = "Up" -> Position(x, saturating_sub(y, 1))
         [] code = "Down" -> Position(x, IF y < height THEN y + 1 ELSE y)
         [] code = "Left" ->
                IF x > 0 THEN Position(x - 1, y)
                ELSE IF y > 0 THEN Position(row_len(doc, y - 1), y - 1)
                ELSE pos
         [] code = "Right" ->
                IF x < width THEN Position(x + 1, y)
                ELSE IF y < height THEN Position(0, y + 1)
                ELSE pos
         [] code = "PageUp" -> Position(x, page_up(y, terminal_height))
         [] code = "PageDown" -> Position(x, page_down(y, terminal_height, height))
         [] code = "Home" -> Position(0, y)
         [] code = "End" -> Position(width, y)
         [] code = "Tab" ->
                IF x < width THEN Position(x + TabAdvance, y)
                ELSE IF y < height THEN Position(0, y + 1)
                ELSE pos
         [] OTHER -> pos

\* move_cursor without its final clamp.
move_cursor_unclamped(code, pos, doc, sz) == move_step(code, pos, doc, sz)

\* Editor::move_cursor
move_cursor(code, pos, doc, sz) ==
    LET p == move_step(code, pos, doc, sz)
        width == row_len(doc, p.y)
    IN Position(IF p.x > width THEN width ELSE p.x, p.y)

\* The editor and the process around it as one record, so that the steps of
\* a handler compose.
Here ==
    [should_quit |-> should_quit, size |-> size, cursor_position |-> cursor_position,
     offset |-> offset, rows |-> rows, dirty |-> dirty, file_name |-> file_name,
     status_message |-> status_message, quit_times |-> quit_times,
     highlighted_word |-> highlighted_word, raw_mode |-> raw_mode, pc |-> pc,
     mode |-> mode, key |-> key, result |-> result, old_position |-> old_position,
     direction |-> direction, highlight_word |-> highlight_word, quits |-> quits]

Editor_becomes(e) ==
    /\ should_quit' = e.should_quit
    /\ size' = e.size
    /\ cursor_position' = e.cursor_position
    /\ offset' = e.offset
    /\ rows' = e.rows
    /\ dirty' = e.dirty
    /\ file_name' = e.file_name
    /\ status_message' = e.status_message
    /\ quit_times' = e.quit_times
    /\ highlighted_word' = e.highlighted_word
    /\ raw_mode' = e.raw_mode
    /\ pc' = e.pc
    /\ mode' = e.mode
    /\ key' = e.key
    /\ result' = e.result
    /\ old_position' = e.old_position
    /\ direction' = e.direction
    /\ highlight_word' = e.highlight_word
    /\ quits' = e.quits

\* A step of the editor with the clock stopped; the screen and the
\* highlighting are left out of it.
Becomes(e) ==
    /\ Editor_becomes(e)
    /\ UNCHANGED <<now, message_bar, highlighting, found>>

\* Editor::refresh_screen up to its flush: unless quitting, the document is
\* highlighted with the editor's highlighted word.
refresh_screen(e) ==
    IF e.should_quit THEN e
    ELSE [e EXCEPT !.highlight_word = e.highlighted_word]

\* The editor of a process that is gone: its memory went with it.  What is
\* left is the terminal, in the mode the process left it in.
Gone(e, how) ==
    [should_quit |-> FALSE, size |-> e.size, cursor_position |-> Position(0, 0),
     offset |-> Position(0, 0), rows |-> <<>>, dirty |-> FALSE, file_name |-> None,
     status_message |-> MsgEmpty, quit_times |-> QUIT_TIMES, highlighted_word |-> None,
     raw_mode |-> e.raw_mode, pc |-> how, mode |-> "main", key |-> e.key,
     result |-> <<>>, old_position |-> Position(0, 0), direction |-> "Forward",
     highlight_word |-> None, quits |-> 0]

\* die, and the panic of Terminal::read_key: nothing puts the terminal back.
die(e) == Gone(e, "panicked")

\* process_keypress_end without the reset of the quit counter.
process_keypress_end_no_reset(e) ==
    [e EXCEPT !.offset = scroll(e.cursor_position, e.offset, e.size),
              !.mode = "main", !.result = <<>>,
              !.old_position = Position(0, 0), !.direction = "Forward"]

\* The end of Editor::process_keypress, after the match on the key; the
\* process is back at the top of the loop of Editor::run.
process_keypress_end(e) ==
    LET s == [e EXCEPT !.offset = scroll(e.cursor_position, e.offset, e.size),
                       !.mode = "main", !.result = <<>>,
                       !.old_position = Position(0, 0), !.direction = "Forward"]
    IN IF s.quit_times < QUIT_TIMES
       THEN [s EXCEPT !.quit_times = QUIT_TIMES, !.status_message = MsgEmpty]
       ELSE s

\* quit with the count taken one too far: the press that finds one left quits.
quit_one_early(e) ==
    IF e.quit_times > 1 /\ e.dirty
    THEN [e EXCEPT !.status_message = MsgWarning(e.quit_times),
                   !.quit_times = e.quit_times - 1]
    ELSE process_keypress_end([e EXCEPT !.should_quit = TRUE])

\* quit without the test of the dirty flag.
quit_any_document(e) ==
    IF e.quit_times > 0
    THEN [e EXCEPT !.status_message = MsgWarning(e.quit_times),
                   !.quit_times = e.quit_times - 1]
    ELSE process_keypress_end([e EXCEPT !.should_quit = TRUE])

\* F8 in Editor::process_keypress.
quit(e) ==
    IF e.quit_times > 0 /\ e.dirty
    THEN [e EXCEPT !.status_message = MsgWarning(e.quit_times),
                   !.quit_times = e.quit_times - 1]
    ELSE process_keypress_end([e EXCEPT !.should_quit = TRUE])

\* edit whose Backspace deletes where the cursor is.
edit_backspace_in_place(e, k) ==
    LET at == e.cursor_position
        ins(c) == [e EXCEPT !.rows = document_insert(e.rows, at, c),
                           !.dirty = document_insert_dirty(e.rows, at, e.dirty)]
        mv(f, code) == [f EXCEPT !.cursor_position =
                            move_cursor(code, f.cursor_position, f.rows, f.size)]
        del(f) == [f EXCEPT !.rows = document_delete(f.rows, f.cursor_position),
                           !.dirty = document_delete_dirty(f.rows, f.cursor_position, f.dirty)]
    IN CASE k.code = "Enter" -> mv(ins("\n"), "Right")
         [] k.code = "Tab" -> mv(ins(TAB), "Tab")
         [] k.code = "Char" -> mv(ins(k.c), "Right")
         [] k.code = "Delete" -> del(e)
         [] k.code = "Backspace" ->
                IF at.x > 0 \/ at.y > 0 THEN mv(del(e), "Left") ELSE e
         [] k.code \in MoveKeys -> mv(e, k.code)
         [] OTHER -> e

\* The editing arms of Editor::process_keypress.
edit(e, k) ==
    LET at == e.cursor_position
        ins(c) == [e EXCEPT !.rows = document_insert(e.rows, at, c),
                           !.dirty = document_insert_dirty(e.rows, at, e.dirty)]
        mv(f, code) == [f EXCEPT !.cursor_position =
                            move_cursor(code, f.cursor_position, f.rows, f.size)]
        del(f) == [f EXCEPT !.rows = document_delete(f.rows, f.cursor_position),
                           !.dirty = document_delete_dirty(f.rows, f.cursor_position, f.dirty)]
    IN CASE k.code = "Enter" -> mv(ins("\n"), "Right")
         [] k.code = "Tab" -> mv(ins(TAB), "Tab")
         [] k.code = "Char" -> mv(ins(k.c), "Right")
         [] k.code = "Delete" -> del(e)
         [] k.code = "Backspace" ->
                IF at.x > 0 \/ at.y > 0 THEN del(mv(e, "Left")) ELSE e
         [] k.code \in MoveKeys -> mv(e, k.code)
         [] OTHER -> e

PromptText(m) == IF m = "search" THEN "Search: " ELSE "Save as: "

\* Editor::prompt at the top of its loop: the prompt and the text typed so
\* far go to the status bar; the refresh of the screen comes next.
prompt_loop(e) ==
    [e EXCEPT !.status_message = MsgPrompt(PromptText(e.mode), e.result)]

\* Editor::prompt, the match on the key read.
prompt_key(e, k) ==
    CASE k.code = "Backspace" ->
            LET new_len == saturating_sub(string_len(e.result), 1)
            IN IF is_char_boundary(e.result, new_len)
               THEN [e EXCEPT !.result = string_truncate(e.result, new_len)]
               ELSE Gone(e, "panicked")     \* the assertion of String::truncate
      [] k.code = "Char" ->
            IF ~is_control(k.c) THEN [e EXCEPT !.result = Append(e.result, k.c)] ELSE e
      [] k.code = "Esc" -> [e EXCEPT !.result = <<>>]
      [] OTHER -> e

\* Editor::prompt after its loop: the value it returns, None for no text.
prompt_value(e) == IF e.result = <<>> THEN None ELSE Some(e.result)

\* search_callback that takes the document for modified by the search.
search_callback_marks_dirty(e, k) ==
    LET right == k.code \in {"Right", "Down"}
        dir == IF k.code \in {"Left", "Up"} THEN "Backward" ELSE "Forward"
        cur == IF right
               THEN move_cursor("Right", e.cursor_position, e.rows, e.size)
               ELSE e.cursor_position
        position == document_find(e.rows, e.result, cur, dir)
        cur2 == IF position # None THEN position[1]
                ELSE IF right THEN move_cursor("Left", cur, e.rows, e.size)
                ELSE cur
    IN [e EXCEPT !.direction = dir,
                 !.cursor_position = cur2,
                 !.offset = IF position # None THEN scroll(cur2, e.offset, e.size) ELSE e.offset,
                 !.highlighted_word = Some(e.result),
                 !.dirty = TRUE]

\* The closure Editor::search hands to the prompt, run after every key
\* other than Enter and Esc.
search_callback(e, k) ==
    LET right == k.code \in {"Right", "Down"}
        dir == IF k.code \in {"Left", "Up"} THEN "Backward" ELSE "Forward"
        cur == IF right
               THEN move_cursor("Right", e.cursor_position, e.rows, e.size)
               ELSE e.cursor_position
        position == document_find(e.rows, e.result, cur, dir)
        cur2 == IF position # None THEN position[1]
                ELSE IF right THEN move_cursor("Left", cur, e.rows, e.size)
                ELSE cur
    IN [e EXCEPT !.direction = dir,
                 !.cursor_position = cur2,
                 !.offset = IF position # None THEN scroll(cur2, e.offset, e.size) ELSE e.offset,
                 !.highlighted_word = Some(e.result)]

\* search_end without the restore of the cursor.
search_end_no_restore(e, query) ==
    process_keypress_end([e EXCEPT !.highlighted_word = None])

\* search_end that clears the highlighted word only when it restores.
search_end_keeps_word(e, query) ==
    process_keypress_end(
        IF query = None
        THEN [e EXCEPT !.cursor_position = e.old_position,
                       !.offset = scroll(e.old_position, e.offset, e.size),
                       !.highlighted_word = None]
        ELSE e)

\* Editor::search after the prompt returned `query`.
search_end(e, query) ==
    process_keypress_end(
        IF query = None
        THEN [e EXCEPT !.cursor_position = e.old_position,
                       !.offset = scroll(e.old_position, e.offset, e.size),
                       !.highlighted_word = None]
        ELSE [e EXCEPT !.highlighted_word = None])

\* save_write that takes the document for saved whatever Document::save says.
save_write_always_clean(e, write_ok) ==
    [e EXCEPT !.dirty = FALSE,
              !.status_message = IF write_ok THEN MsgSaved ELSE MsgWriteErr]

\* Editor::save from the write on: write_ok is the outcome of Document::save,
\* which clears the dirty flag when it succeeds.
save_write(e, write_ok) ==
    IF write_ok
    THEN [e EXCEPT !.dirty = FALSE, !.status_message = MsgSaved]
    ELSE [e EXCEPT !.status_message = MsgWriteErr]

\* save_end without the return on an aborted prompt.
save_end_writes_unnamed(e, new_name, write_ok) ==
    process_keypress_end(save_write([e EXCEPT !.file_name = new_name], write_ok))

\* Editor::save after the prompt returned `new_name`.
save_end(e, new_name, write_ok) ==
    process_keypress_end(
        IF new_name = None
        THEN [e EXCEPT !.status_message = MsgAborted]
        ELSE save_write([e EXCEPT !.file_name = new_name], write_ok))

\* A prompt left by Enter or Esc: the status message is emptied and the
\* caller goes on with the value.
prompt_done(e, write_ok) ==
    LET f == [e EXCEPT !.status_message = MsgEmpty]
    IN IF e.mode = "search" THEN search_end(f, prompt_value(f))
       ELSE save_end(f, prompt_value(f), write_ok)

\* A prompt left by a failed flush: `?` returns the error, the caller's
\* unwrap_or(None) turns it into None; the status message stays.
prompt_failed(e) ==
    IF e.mode = "search" THEN search_end(e, None)
    ELSE save_end(e, None, TRUE)

\* ------------------------------------------------------------ construction
OpenDocs == {<< <<"a">> >>, << <<"a">>, <<"a">> >>}
OpenName == <<"a">>

\* Terminal::default when the terminal reports its size: that size less the
\* two bar rows.
TerminalDefault ==
    {[width |-> sz[1], height |-> saturating_sub(sz[2], 2)] : sz \in TerminalSizes}

\* Terminal::default when the terminal reports no size: 16 x 20.
TerminalFallback ==
    {[width |-> FallbackWidth, height |-> FallbackHeight]}

\* The fields Editor::default sets whatever the arguments of the program
\* are, over a terminal whose Terminal::default is one of `sizes`.
Editor_fields(sizes) ==
    /\ now = 0
    /\ message_bar = None
    /\ found = None
    /\ should_quit = FALSE
    /\ size \in sizes
    /\ raw_mode = TRUE
    /\ quit_times = QUIT_TIMES
    /\ highlighted_word = None
    /\ pc = "loop"
    /\ old_position = Position(0, 0)
    /\ highlight_word = None
    /\ quits = 0

\* Editor_default_empty that keeps the name of the file it could not open.
Editor_default_empty_named ==
    /\ rows = <<>>
    /\ \/ file_name = None /\ status_message = MsgHelp
       \/ file_name = Some(OpenName) /\ status_message = MsgOpenErr
    /\ dirty = FALSE

\* Editor::default with a document of its own making: no argument was
\* given, or Document::open failed and the status message says so.
Editor_default_empty ==
    /\ rows = <<>>
    /\ file_name = None
    /\ dirty = FALSE
    /\ status_message \in {MsgHelp, MsgOpenErr}

\* Editor::default with the document Document::open returned.
Editor_default_opened ==
    /\ rows \in OpenDocs
    /\ file_name = Some(OpenName)
    /\ dirty = FALSE
    /\ status_message = MsgHelp

\* Editor::default over a terminal whose Terminal::default is one of `sizes`.
Editor_default(sizes) ==
    /\ Editor_fields(sizes)
    /\ Editor_default_empty \/ Editor_default_opened
    /\ highlighting = <<>>
    /\ cursor_position = Position(0, 0)
    /\ offset = Position(0, 0)
    /\ mode = "main"
    /\ key = K("")
    /\ result = <<>>
    /\ direction = "Forward"

\* The editor constructed on a terminal that reports its size.
Init == Editor_default(TerminalDefault)

\* The editor constructed on a terminal whose size query fails.
InitFallback == Editor_default(TerminalFallback)

\* ------------------------------------------------------------------ actions
\* The process is observed where it is about to refresh the screen: at the
\* top of the loop of Editor::run, or in the loop of Editor::prompt inside a
\* session.  Every action runs it from there through the refresh and the
\* read of a key to the next such place.
AtRun == pc = "loop" /\ mode = "main"
AtPrompt == pc = "loop" /\ mode \in {"search", "save_as"}
InMain == AtRun /\ ~should_quit

\* The flush of the refresh fails.  In Editor::run that is fatal; in a
\* prompt the error goes to the caller, which takes it for no answer.
RefreshFails ==
    \/ AtRun /\ Becomes(die(refresh_screen(Here)))
    \/ AtPrompt /\ Becomes(prompt_failed(refresh_screen(Here)))

\* Terminal::read_key fails: it panics.
ReadKeyFails ==
    \/ InMain /\ Becomes(die(refresh_screen(Here)))
    \/ AtPrompt /\ Becomes(die(refresh_screen(Here)))

\* Editor::run finds should_quit set: raw mode is left and the loop ends.
Exit ==
    /\ AtRun
    /\ should_quit
    /\ Becomes([refresh_screen(Here) EXCEPT !.raw_mode = FALSE, !.pc = "exited"])

\* The editor at the return of Terminal::read_key with key k.
Read(e, k) == [e EXCEPT !.key = k, !.quits = IF k.code = "F8" THEN e.quits + 1 ELSE 0]

\* F8
KeyQuit ==
    /\ InMain
    /\ Becomes(quit(Read(refresh_screen(Here), K("F8"))))

\* F3: the search session is entered.
KeyFind ==
    /\ InMain
    /\ Becomes(prompt_loop([Read(refresh_screen(Here), K("F3")) EXCEPT
                                !.mode = "search", !.old_position = cursor_position,
                                !.direction = "Forward", !.result = <<>>]))

\* F5: with a file name the document is written, without one the prompt
\* for a name is entered.
KeySave ==
    /\ InMain
    /\ LET e == Read(refresh_screen(Here), K("F5"))
       IN IF file_name = None
          THEN Becomes(prompt_loop([e EXCEPT !.mode = "save_as", !.result = <<>>]))
          ELSE \E write_ok \in BOOLEAN :
                  Becomes(process_keypress_end(save_write(e, write_ok)))

RECURSIVE total_len(_)
total_len(doc) == IF doc = <<>> THEN 0 ELSE Len(Head(doc)) + total_len(Tail(doc))

\* The keys that make the document grow are taken while it is within bounds.
Grows(k) ==
    CASE k.code = "Enter" -> Len(rows) < MaxRows
      [] k.code \in {"Tab", "Char"} ->
            /\ cursor_position.y = Len(rows) => Len(rows) < MaxRows
            /\ total_len(rows) < MaxChars
      [] OTHER -> TRUE

\* The keys of the main loop other than F8, F3 and F5.  "Other" is any key
\* code the match does not name (Esc, Insert, the other function keys).
EditKeys ==
    {K(c) : c \in {"Enter", "Tab", "Delete", "Backspace", "Other"} \cup MoveKeys}
        \cup {KChar(c) : c \in Chars}

\* Every other key of the main loop.
KeyEdit ==
    /\ InMain
    /\ \E k \in EditKeys :
          /\ Grows(k)
          /\ Becomes(process_keypress_end(edit(Read(refresh_screen(Here), k), k)))

\* The keys of a prompt other than Enter and Esc.  "Other" is any key code
\* that neither the prompt nor the closure of the search names (Tab, Delete,
\* Home, the function keys): they all take the `_` arms.
PromptKeys ==
    {K(c) : c \in {"Backspace", "Right", "Down", "Left", "Up", "Other"}}
        \cup {KChar(c) : c \in Chars}

\* A key in a prompt other than Enter and Esc, out of `keys`, the text
\* kept to `max` characters.  A panic in the match on the key ends it.
PromptKeyOf(keys, max) ==
    /\ AtPrompt
    /\ \E k \in keys :
          /\ k.code = "Char" => Len(result) < max
          /\ LET e == prompt_key(Read(refresh_screen(Here), k), k)
             IN IF e.pc = "panicked" THEN Becomes(e)
                ELSE Becomes(prompt_loop(IF mode = "search" THEN search_callback(e, k)
                                         ELSE e))

\* A key in a prompt other than Enter and Esc.
PromptKey == PromptKeyOf(PromptKeys, MaxQuery)

\* Enter in a prompt.
PromptEnter ==
    /\ AtPrompt
    /\ \E write_ok \in (IF mode = "save_as" /\ result # <<>> THEN BOOLEAN ELSE {TRUE}) :
          Becomes(prompt_done(prompt_key(Read(refresh_screen(Here), K("Enter")), K("Enter")),
                              write_ok))

\* Esc in a prompt.
PromptEsc ==
    /\ AtPrompt
    /\ Becomes(prompt_done(prompt_key(Read(refresh_screen(Here), K("Esc")), K("Esc")), TRUE))

Next ==
    \/ RefreshFails
    \/ ReadKeyFails
    \/ Exit
    \/ KeyQuit
    \/ KeyFind
    \/ KeySave
    \/ KeyEdit
    \/ PromptKey
    \/ PromptEnter
    \/ PromptEsc

Spec == Init /\ [][Next]_vars

\* ------------------------------------------------------- Document.find alone
\* Sequences over S of length at most n.
SeqsUpTo(S, n) == UNION {[1..k -> S] : k \in 0..n}

FindChars == {"a", "b"}
FindDocs == SeqsUpTo(SeqsUpTo(FindChars, MaxFindLen), MaxFindRows)
FindQueries == SeqsUpTo(FindChars, MaxFindQuery)

\* A search session on any document, with any query typed, the cursor at
\* any valid position and either direction set: the closure is about to
\* call Document::find.
InitFind ==
    /\ Editor_fields(TerminalDefault)
    /\ rows \in FindDocs
    /\ file_name = None
    /\ dirty = FALSE
    /\ highlighting = <<>>
    /\ mode = "search"
    /\ key = K("F3")
    /\ result \in FindQueries
    /\ direction \in {"Forward", "Backward"}
    /\ \E y \in 0..Len(rows) : \E x \in 0..row_len(rows, y) :
          cursor_position = Position(x, y)
    /\ offset = scroll(cursor_position, Position(0, 0), size)
    /\ status_message = MsgPrompt(PromptText("search"), result)

\* editor.document.find(&query, &editor.cursor_position, direction)
Find ==
    /\ AtPrompt
    /\ mode = "search"
    /\ found = None
    /\ found' = Some(document_find(rows, result, cursor_position, direction))
    /\ UNCHANGED <<editor, now, message_bar, highlighting>>

NextFind == Find

SpecFind == InitFind /\ [][NextFind]_vars

SpecFallback == InitFallback /\ [][Next]_vars

\* ------------------------------------------------- the clock and the screen
\* Editor::draw_message_bar: the line is cleared, and the message is printed
\* if less than five seconds have passed since its making (a message of no
\* text prints nothing).
draw_message_bar(message) ==
    IF now - message.time < MessageSeconds /\ message.text # ""
    THEN Some(message) ELSE None

\* The refresh of the main loop, after which the process blocks in
\* Terminal::read_key.
ClockRefresh ==
    /\ InMain
    /\ Editor_becomes([refresh_screen(Here) EXCEPT !.pc = "read_key"])
    /\ message_bar' = draw_message_bar(status_message)
    /\ UNCHANGED <<now, highlighting, found>>

\* A second passes while the process is blocked in Terminal::read_key.
ClockTick ==
    /\ pc = "read_key"
    /\ now < MaxNow
    /\ now' = now + 1
    /\ UNCHANGED <<editor, message_bar, highlighting, found>>

\* Terminal::read_key returns a key and Editor::process_keypress handles
\* it: F8, F5 on a document that has a file name, or a key of no effect.
ClockKey ==
    /\ pc = "read_key"
    /\ \/ Editor_becomes([quit(Read(Here, K("F8"))) EXCEPT !.pc = "loop"])
       \/ /\ file_name # None
          /\ \E write_ok \in BOOLEAN :
                Editor_becomes([process_keypress_end(save_write(Read(Here, K("F5")), write_ok))
                                    EXCEPT !.pc = "loop"])
       \/ Editor_becomes([process_keypress_end(edit(Read(Here, K("Other")), K("Other")))
                              EXCEPT !.pc = "loop"])
    /\ UNCHANGED <<now, message_bar, highlighting, found>>

\* The refresh that finds should_quit set clears the screen; the loop ends.
ClockExit ==
    /\ AtRun
    /\ should_quit
    /\ Editor_becomes([refresh_screen(Here) EXCEPT !.raw_mode = FALSE, !.pc = "exited"])
    /\ message_bar' = None
    /\ UNCHANGED <<now, highlighting, found>>

NextClock ==
    \/ ClockRefresh
    \/ ClockTick
    \/ ClockKey
    \/ ClockExit

SpecClock == Init /\ [][NextClock]_vars

\* ------------------------------------------- prompts with wide characters
\* Characters of one byte and of two.
WideChars == {"a", "é"}

\* Backspace and the characters, wide ones among them.
PromptKeysWide == {K("Backspace")} \cup {KChar(c) : c \in WideChars}

PromptKeyWide == PromptKeyOf(PromptKeysWide, MaxWide)

NextPrompt ==
    \/ KeyFind
    \/ KeySave
    \/ PromptKeyWide
    \/ PromptEnter
    \/ PromptEsc

SpecPrompt == Init /\ [][NextPrompt]_vars

\* ------------------------------------------------------ motion and removal
\* The documents opened: rows that are empty or hold one character.
KeyDocs == SeqsUpTo({<<>>, <<"a">>}, MaxKeyRows)

\* Terminal::default over the sizes the terminal may report, those of
\* fewer rows than the two bars take included.
TerminalAny ==
    {[width |-> 2, height |-> saturating_sub(r, 2)] : r \in 0..MaxTerminalRows}

\* The editor started on a file of any of these documents.
InitKeys ==
    /\ Editor_fields(TerminalAny)
    /\ rows \in KeyDocs
    /\ file_name = Some(OpenName)
    /\ dirty = FALSE
    /\ status_message = MsgHelp
    /\ highlighting = <<>>
    /\ cursor_position = Position(0, 0)
    /\ offset = Position(0, 0)
    /\ mode = "main"
    /\ key = K("")
    /\ result = <<>>
    /\ direction = "Forward"

\* A key that moves the cursor.
KeyMove ==
    /\ InMain
    /\ \E k \in {K(c) : c \in MoveKeys} :
          Becomes(process_keypress_end(edit(Read(refresh_screen(Here), k), k)))

\* Backspace or Delete.
KeyRemove ==
    /\ InMain
    /\ \E k \in {K("Backspace"), K("Delete")} :
          Becomes(process_keypress_end(edit(Read(refresh_screen(Here), k), k)))

NextKeys ==
    \/ KeyMove
    \/ KeyRemove

SpecKeys == InitKeys /\ [][NextKeys]_vars

\* --------------------------------------------------- highlighting as typed
HlChars == {"/", "*", "x"}

\* The editor started on no file.
InitHighlight ==
    /\ Editor_default(TerminalDefault)
    /\ rows = <<>>
    /\ status_message = MsgHelp

\* Enter or a character of the comment tokens or of plain text is typed.
\* The refresh before the key highlights the rows down to the end of the
\* viewport; Document::insert then makes the highlighting anew from the
\* edited row on.
KeyType ==
    /\ InMain
    /\ \E k \in {K("Enter")} \cup {KChar(c) : c \in HlChars} :
          /\ Len(rows) < MaxHlRows \/ (k.code = "Char" /\ cursor_position.y < Len(rows))
          /\ k.code = "Char" => total_len(rows) < MaxHlChars
          /\ LET drawn == document_highlight(rows, highlighting, highlighted_word,
                                             offset.y + size.height)
                 e == process_keypress_end(edit(Read(refresh_screen(Here), k), k))
             IN /\ Editor_becomes(e)
                /\ highlighting' = highlight_from(e.rows, drawn, None,
                                                  cursor_position.y, Len(e.rows))
    /\ UNCHANGED <<now, message_bar, found>>

NextHighlight == KeyType

SpecHighlight == InitHighlight /\ [][NextHighlight]_vars

\* ------------------------------------------------------------------- claims
Running == pc = "loop"

\* C1 (as stated): with a dirty document the third F8 in a row quits.
C1_ThirdPressQuits ==
    (dirty /\ quits = 3) => should_quit

\* C1 (amended): with a dirty document the first three F8 in a row do not
\* quit, each takes one off the counter, and the fourth sets should_quit.
C1_FourthPressQuits ==
    /\ (dirty /\ quits \in 1..3) => (~should_quit /\ quit_times = QUIT_TIMES - quits)
    /\ (dirty /\ quits = 4) => should_quit

C1_Witness == dirty /\ quits = 4 /\ should_quit /\ pc = "exited"

\* C2: the cursor is valid in every state of the running editor: its row is
\* at most the row count and its column at most the length of its row (0 at
\* the one-past-last row).
C2_CursorValid ==
    Running =>
        /\ cursor_position.y \in 0..Len(rows)
        /\ cursor_position.x \in 0..row_len(rows, cursor_position.y)

\* A Tab was inserted and the advance by four stopped at the end of the row.
C2_Witness ==
    /\ Running
    /\ key.code = "Tab"
    /\ cursor_position.x > 0
    /\ cursor_position.x = row_len(rows, cursor_position.y)

\* C3: Esc in a search session puts the cursor back where it was when the
\* session was entered.
C3_EscRestores ==
    [][(mode = "search" /\ key'.code = "Esc" /\ pc' = "loop")
          => cursor_position' = old_position]_vars

\* A session entered at the end of row 0 of two rows "a" had the query "a"
\* on the screen, which is found in row 1; after Esc the cursor is back.
C3_Witness ==
    /\ Running /\ mode = "main"
    /\ key.code = "Esc"
    /\ highlight_word = Some(<<"a">>)
    /\ rows = << <<"a">>, <<"a">> >>
    /\ cursor_position = Position(1, 0)

\* C4 (as stated): Enter in a search session leaves the cursor where the
\* session had put it.
C4_EnterKeeps ==
    [][(mode = "search" /\ key'.code = "Enter" /\ pc' = "loop")
          => cursor_position' = cursor_position]_vars

\* C5 (as stated): Right or Down in a search session that finds no match
\* leaves the cursor where it was.
C5_AdvanceUndone ==
    [][(/\ mode = "search" /\ mode' = "search"
        /\ key'.code \in {"Right", "Down"}
        /\ document_find(rows, result,
                         move_cursor("Right", cursor_position, rows, size),
                         "Forward") = None)
          => cursor_position' = cursor_position]_vars

\* The save of a document that has a file name, the write failing.
SaveFails ==
    /\ InMain
    /\ file_name # None
    /\ Becomes(process_keypress_end(save_write(Read(refresh_screen(Here), K("F5")), FALSE)))

\* C6 (as stated): a failed save leaves the dirty flag as it was and the
\* write-error message on the status bar.
C6_FailedSaveReported ==
    [][SaveFails => (dirty' = dirty /\ status_message' = MsgWriteErr)]_vars

\* C7 (as stated): a process that a terminal error has ended has put the
\* terminal back into normal mode first.  Checked on the terminal whose size
\* query has failed, where the editor runs on with 16 x 20.
C7_RawModeLeft ==
    pc \in {"exited", "panicked"} => ~raw_mode

\* C8: the quit counter stays within 0..3, and after every key of the main
\* loop other than F8 it is 3.
C8_CounterReset ==
    /\ quit_times \in 0..QUIT_TIMES
    /\ (Running /\ mode = "main" /\ key.code # "F8") => quit_times = QUIT_TIMES

\* F5 leaves a message of its own unless the reset of the counter, taken
\* after a warning, has emptied the status bar.
C8_Witness ==
    /\ Running /\ mode = "main"
    /\ key.code = "F5"
    /\ file_name # None
    /\ status_message = MsgEmpty
    /\ quit_times = QUIT_TIMES

\* C9: F8 on a clean document quits at once.
C9_CleanQuits ==
    (pc \in {"loop", "exited"} /\ key.code = "F8" /\ ~dirty) => (should_quit /\ quits = 1)

C9_Witness ==
    pc = "exited" /\ key.code = "F8" /\ ~dirty /\ should_quit /\ quits = 1 /\ ~raw_mode

\* C10: outside a search session the highlighted word is None, and every
\* refresh of the main loop hands no word to the highlighting.
C10_WordCleared ==
    /\ [](mode = "main" => highlighted_word = None)
    /\ [][(mode = "main" /\ ~should_quit) => highlight_word' = None]_vars

\* A session whose last refresh highlighted the query "a" was left by Enter.
C10_Witness ==
    /\ Running /\ mode = "main"
    /\ key.code = "Enter"
    /\ highlight_word = Some(<<"a">>)
    /\ highlighted_word = None

\* The save of a document, the write succeeding: F5 on a document that has a
\* file name, or Enter on a name typed into the prompt for one.
SaveSucceeds ==
    \/ /\ InMain
       /\ file_name # None
       /\ Becomes(process_keypress_end(save_write(Read(refresh_screen(Here), K("F5")), TRUE)))
    \/ /\ AtPrompt
       /\ mode = "save_as"
       /\ result # <<>>
       /\ Becomes(prompt_done(prompt_key(Read(refresh_screen(Here), K("Enter")), K("Enter")),
                              TRUE))

\* C11: while the process lives, a key that changes the rows leaves the
\* document dirty, and a dirty document becomes clean only by a save whose
\* write succeeds: not by a failed save, an aborted prompt for a name, a
\* motion of the cursor or a search.
C11_DirtyInvariant ==
    [][(pc' # "panicked") =>
          /\ (rows' # rows => dirty')
          /\ ((dirty /\ ~dirty') => SaveSucceeds)]_vars

\* A document that was opened as "a" has been edited and then saved.
C11_Witness ==
    /\ Running /\ mode = "main"
    /\ key.code = "F5"
    /\ rows = << <<"a", "a">> >>
    /\ ~dirty
    /\ status_message = MsgSaved

\* The places at which `query` occurs in the document.
Occurrences(doc, query) ==
    UNION {{Position(x, y - 1) : x \in row_matches(doc[y], query)} : y \in 1..Len(doc)}

\* C12: in a document that holds exactly one occurrence of a query that is
\* not empty, Document.find returns the place of that occurrence from every
\* valid start and in either direction; with an empty query it returns none.
C12_SearchWrap ==
    found # None =>
        /\ result = <<>> => found[1] = None
        /\ (result # <<>> /\ Cardinality(Occurrences(rows, result)) = 1)
              => (found[1] # None /\ found[1][1] \in Occurrences(rows, result))

\* The one occurrence lies in the start row before the start column, and
\* the forward search has come round to it through the other row.
C12_Witness ==
    /\ found = Some(Some(Position(0, 0)))
    /\ rows = << <<"a", "b">>, <<"b">> >>
    /\ result = <<"a">>
    /\ cursor_position = Position(1, 0)
    /\ direction = "Forward"

\* C13: the editor whose Document::open failed is constructed all the same:
\* before the first key it is at the top of its loop with an empty document
\* that has no file name and is not dirty, and its status message is the
\* one that reports the failure.
C13_OpenFailureStarts ==
    (status_message = MsgOpenErr /\ key = K(""))
        => /\ pc = "loop" /\ mode = "main" /\ ~should_quit
           /\ rows = <<>>
           /\ file_name = None
           /\ ~dirty

\* The editor that could not open its file has taken a character, still
\* under the message of the failure.
C13_Witness ==
    /\ Running /\ mode = "main"
    /\ status_message = MsgOpenErr
    /\ key = KChar("a")
    /\ rows = << <<"a">> >>
    /\ file_name = None
    /\ dirty

\* The type is painted in the colour of comments.
PaintedComment(type) == to_color(type) = Rgb(245, 232, 183)

\* No comment token starts in `row` at the places lo..hi.
NoCommentStart(row, lo, hi) ==
    \A i \in lo..hi : ~TokenAt(row, i, LineComment) /\ ~TokenAt(row, i, BlockOpen)

\* Row r opens a block comment at place p and does not close it: the rows
\* above it are plain text, no comment starts before p and no close token
\* stands after the open token.
OpensAt(doc, r, p) ==
    /\ \A y \in 1..(r - 1) : \A i \in 1..Len(doc[y]) : doc[y][i] = "x"
    /\ TokenAt(doc[r], p, BlockOpen)
    /\ NoCommentStart(doc[r], 1, p - 1)
    /\ \A i \in (p + 2)..Len(doc[r]) : ~TokenAt(doc[r], i, BlockClose)

\* Row m is the first row below r that holds a close token, first at q.
ClosesAt(doc, r, m, q) ==
    /\ m > r
    /\ \A y \in (r + 1)..(m - 1) : \A i \in 1..Len(doc[y]) : ~TokenAt(doc[y], i, BlockClose)
    /\ TokenAt(doc[m], q, BlockClose)
    /\ \A i \in 1..(q - 1) : ~TokenAt(doc[m], i, BlockClose)

\* C14: when a row opens a block comment and does not close it, the rest of
\* that row, every row below it that holds no close token, and the row of
\* the close token up to and including it are painted as comment; the text
\* after the close token is scanned from the Normal state: where no comment
\* starts in it, none of it is painted as comment.
C14_CommentCarried ==
    /\ Len(highlighting) = Len(rows)
    /\ \A y \in 1..Len(rows) : Len(highlighting[y]) = Len(rows[y])
    /\ \A r \in 1..Len(rows) : \A p \in 1..Len(rows[r]) :
          OpensAt(rows, r, p) =>
              /\ \A i \in p..Len(rows[r]) : PaintedComment(highlighting[r][i])
              /\ \A m \in (r + 1)..Len(rows) :
                    /\ (\A y \in (r + 1)..m : \A i \in 1..Len(rows[y]) :
                            ~TokenAt(rows[y], i, BlockClose))
                          => \A i \in 1..Len(rows[m]) : PaintedComment(highlighting[m][i])
                    /\ \A q \in 1..Len(rows[m]) :
                          ClosesAt(rows, r, m, q) =>
                              /\ \A i \in 1..(q + 1) : PaintedComment(highlighting[m][i])
                              /\ NoCommentStart(rows[m], q + 2, Len(rows[m]))
                                    => \A i \in (q + 2)..Len(rows[m]) :
                                          ~PaintedComment(highlighting[m][i])

\* "/*", "x", "*/x" has been typed: the middle row, which holds no token,
\* and the close token are comment, the x after the close token is not.
C14_Witness ==
    /\ Running
    /\ rows = << <<"/", "*">>, <<"x">>, <<"*", "/", "x">> >>
    /\ highlighting = << <<"MiltilineComment", "MiltilineComment">>,
                         <<"MiltilineComment">>,
                         <<"MiltilineComment", "MiltilineComment", "None">> >>

\* The status message a key of the main loop leaves when its handler has
\* set `message`: the reset of the quit counter empties it.
Left(message) == IF quit_times < QUIT_TIMES THEN MsgEmpty ELSE message

\* C15: F5 on a document without a file name enters the prompt for one
\* and writes nothing.  Enter on a text that is not empty makes that text
\* the file name and the document is written (the write succeeds and the
\* document is clean, or it fails and the dirty flag stays).  Esc, or Enter
\* on no text, leaves the file name unset, the dirty flag and the rows as
\* they were, and the save is reported aborted.
C15_SaveAsPrompt ==
    /\ [][(mode = "main" /\ key'.code = "F5" /\ pc' = "loop" /\ file_name = None)
            => (mode' = "save_as" /\ file_name' = None /\ dirty' = dirty)]_vars
    /\ [][(mode = "save_as" /\ mode' = "main" /\ pc' = "loop")
            => IF key'.code = "Enter" /\ result # <<>>
               THEN /\ file_name' = Some(result)
                    /\ \/ ~dirty' /\ status_message' = Left(MsgSaved)
                       \/ dirty' = dirty /\ status_message' = Left(MsgWriteErr)
               ELSE /\ file_name' = None
                    /\ dirty' = dirty
                    /\ rows' = rows
                    /\ status_message' = Left(MsgAborted)]_vars

\* A document typed into the editor started on no file has been saved
\* under the name typed into the prompt.
C15_Witness ==
    /\ Running /\ mode = "main"
    /\ key.code = "Enter"
    /\ rows = << <<"a">> >>
    /\ file_name = Some(<<"a">>)
    /\ ~dirty
    /\ status_message = MsgSaved

\* C16: PageUp takes the cursor's row to max(row - height, 0) and PageDown
\* to min(row + height, row count), for every row of the document, the
\* one-past-last included, and every height of the viewport, 0 included.
C16_PageMoves ==
    [][/\ key'.code = "PageUp"
            => cursor_position'.y = Max({cursor_position.y - size.height, 0})
       /\ key'.code = "PageDown"
            => cursor_position'.y = Min({cursor_position.y + size.height, Len(rows)})]_vars

\* PageDown on a viewport of two rows has come to the end of four rows.
C16_Witness ==
    /\ Running
    /\ key.code = "PageDown"
    /\ size.height = 2
    /\ Len(rows) = 4
    /\ cursor_position.y = 4

\* C20: Backspace at column 0 of an existing row r > 0 merges row r into
\* row r-1: the document is one row shorter, row r-1 is the old row r-1
\* followed by the old row r, the other rows are as they were, and the
\* cursor is in row r-1 at the old length of that row.  Backspace at (0, 0)
\* changes neither the document nor the cursor.
C20_BackspaceMerges ==
    [][key'.code = "Backspace" =>
          LET r == cursor_position.y
          IN /\ (cursor_position.x = 0 /\ r > 0 /\ r < Len(rows))
                  => /\ Len(rows') = Len(rows) - 1
                     /\ rows'[r] = rows[r] \o rows[r + 1]
                     /\ \A y \in 1..Len(rows') :
                           /\ y < r => rows'[y] = rows[y]
                           /\ y > r => rows'[y] = rows[y + 1]
                     /\ cursor_position' = Position(Len(rows[r]), r - 1)
             /\ (cursor_position.x = 0 /\ r = 0)
                  => /\ rows' = rows
                     /\ dirty' = dirty
                     /\ cursor_position' = cursor_position]_vars

\* Row 1 "a" of a document has been merged into row 0 "a" by Backspace.
C20_Witness ==
    /\ Running
    /\ key.code = "Backspace"
    /\ Len(rows) = 3
    /\ rows[1] = <<"a", "a">>
    /\ cursor_position = Position(1, 0)
    /\ dirty

\* C17 (as stated): Backspace in a prompt takes the last character off the
\* text, whatever its width, leaves the rest and the prompt goes on; on no
\* text it does nothing.
C17_BackspaceRemovesLast ==
    [][(AtPrompt /\ key'.code = "Backspace")
          => /\ pc' = "loop"
             /\ mode' = mode
             /\ result' = SubSeq(result, 1, saturating_sub(Len(result), 1))]_vars

\* C18 (as stated): a message is on the message bar only while less than
\* five seconds have passed since it was set, whether keys are pressed or
\* not.
C18_MessageExpires ==
    message_bar # None => now - message_bar[1].time < MessageSeconds

\* C19 (as stated): once Left or Up has set the direction of a search
\* session to Backward, a character typed or a Backspace searches Backward.
C19_DirectionRetained ==
    [][(/\ mode = "search" /\ mode' = "search" /\ pc' = "loop"
        /\ direction = "Backward"
        /\ key'.code \in {"Char", "Backspace"})
          => direction' = "Backward"]_vars

\* C21 (as stated): wherever the screen is about to be refreshed, in the
\* main loop or inside a prompt, the cursor lies inside the viewport when
\* the viewport has at least one row and one column.
C21_CursorInViewport ==
    (Running /\ size.width >= 1 /\ size.height >= 1) =>
        /\ offset.y <= cursor_position.y
        /\ cursor_position.y < offset.y + size.height
        /\ offset.x <= cursor_position.x
        /\ cursor_position.x < offset.x + size.width

\* A step of a search session that leaves the process alive: the F3 that
\* enters it, a key inside it, or the Enter, Esc or failed flush that leaves it.
SearchStep == (mode = "search" \/ mode' = "search") /\ pc' = "loop"

\* C22: a search session never modifies the document: over every step of
\* it the rows (and so their number), the file name and the dirty flag stay
\* what they were, so they are the same at exit as at entry.  Of the rest of
\* the editor the session leaves should_quit and the size alone, and the
\* quit counter until the tail of process_keypress puts it back at the exit.
C22_SearchKeepsDocument ==
    [][SearchStep =>
          /\ rows' = rows
          /\ file_name' = file_name
          /\ dirty' = dirty
          /\ should_quit' = should_quit
          /\ size' = size
          /\ quit_times' = IF mode' = "main" /\ quit_times < QUIT_TIMES
                           THEN QUIT_TIMES ELSE quit_times]_vars

\* A search session has just been left by Enter or Esc, after its last
\* refresh drew the matches of a typed query, over a modified, named
\* document that is still modified and named.
C22_Witness ==
    /\ Running /\ mode = "main"
    /\ key.code \in {"Enter", "Esc"}
    /\ highlight_word # None /\ highlight_word[1] # <<>>
    /\ dirty /\ file_name # None /\ Len(rows) = 2

\* A key of the main loop that inserts one character, read with the cursor
\* on an existing row at a column of that row.
InsertsInRow ==
    /\ Running /\ mode = "main" /\ pc' = "loop"
    /\ key'.code \in {"Char", "Tab"}
    /\ cursor_position.y < Len(rows)
    /\ cursor_position.x <= row_len(rows, cursor_position.y)

\* C23 (as stated): after a keypress that inserts one character (a printable
\* character or Tab) into an existing row at (r, c), the row is one character
\* longer and the cursor is at (r, c + 1), for every c in 0..length of row r.
C23_InsertAdvancesOne ==
    [][InsertsInRow =>
          /\ Len(rows') = Len(rows)
          /\ row_len(rows', cursor_position.y) = row_len(rows, cursor_position.y) + 1
          /\ cursor_position' = Position(cursor_position.x + 1, cursor_position.y)]_vars

====
